---- MODULE Spec2Model ----
(***************************************************************************)
(* Model of flowy-grid/src/entities/setting_entities.rs: the grid layout   *)
(* enumeration and its mapping to the persisted LayoutRevision, and the    *)
(* conversion of a GridSettingChangesetPB into GridSettingChangesetParams. *)
(*                                                                         *)
(* One behaviour follows one changeset: it arrives (Init), is converted    *)
(* once (Validate), and the caller may then ask is_filter_changed of the   *)
(* parameters. The layout operations (all, the two From impls) can be      *)
(* called at any point, in any order, any number of times.                 *)
(***************************************************************************)
EXTENDS Integers, Sequences, FiniteSets, TLC

\* Longest view identifier the model enumerates.
MaxIdLen == 2

\* Characters of an identifier: one whitespace character, one other.
Char == {" ", "a"}

RECURSIVE StringsUpTo(_)
StringsUpTo(n) ==
    IF n = 0 THEN {<<>>}
    ELSE LET shorter == StringsUpTo(n - 1)
         IN  shorter \cup {Append(s, c) : s \in {t \in shorter : Len(t) = n - 1}, c \in Char}

Strings == StringsUpTo(MaxIdLen)

----------------------------------------------------------------------------
\* Result<T, E> and Option<T>

Ok(v) == [ok |-> TRUE, val |-> v]
Err(e) == [ok |-> FALSE, err |-> e]

None == [some |-> FALSE]
Some(v) == [some |-> TRUE, val |-> v]

----------------------------------------------------------------------------
\* The two layout enumerations

GridLayoutTable == [enum |-> "GridLayout", variant |-> "Table"]
GridLayoutBoard == [enum |-> "GridLayout", variant |-> "Board"]

\* enum GridLayout, in declaration order (what the derived iter() yields)
GridLayoutIter == <<GridLayoutTable, GridLayoutBoard>>

GridLayout == {GridLayoutIter[i] : i \in 1..Len(GridLayoutIter)}

LayoutRevisionTable == [enum |-> "LayoutRevision", variant |-> "Table"]
LayoutRevisionBoard == [enum |-> "LayoutRevision", variant |-> "Board"]

LayoutRevision == {LayoutRevisionTable, LayoutRevisionBoard}

\* impl From<LayoutRevision> for GridLayout
GridLayoutFromSwapped(rev) ==
    CASE rev = LayoutRevisionTable -> GridLayoutBoard
      [] rev = LayoutRevisionBoard -> GridLayoutTable

GridLayoutFrom(rev) ==
    CASE rev = LayoutRevisionTable -> GridLayoutTable
      [] rev = LayoutRevisionBoard -> GridLayoutBoard

\* impl From<GridLayout> for LayoutRevision
LayoutRevisionFromAlwaysTable(layout) ==
    CASE layout = GridLayoutTable -> LayoutRevisionTable
      [] layout = GridLayoutBoard -> LayoutRevisionTable

LayoutRevisionFrom(layout) ==
    CASE layout = GridLayoutTable -> LayoutRevisionTable
      [] layout = GridLayoutBoard -> LayoutRevisionBoard

\* GridLayoutPB { ty }
GridLayoutPB(layout_ty) == [ty |-> layout_ty]

\* GridLayoutPB::all: push one GridLayoutPB per variant that iter() yields
RECURSIVE PushLayouts(_, _)
PushLayouts(layouts, i) ==
    IF i > Len(GridLayoutIter) THEN layouts
    ELSE PushLayouts(Append(layouts, GridLayoutPB(GridLayoutIter[i])), i + 1)

AllSkipsFirst == PushLayouts(<<>>, 2)

All == PushLayouts(<<>>, 1)

----------------------------------------------------------------------------
\* Collaborators of the conversion

\* flowy_error::ErrorCode: the one error type of try_into and of the
\* delegated conversions.
ErrorCode == {"ViewIdInvalid", "FieldIdIsEmpty", "UnexpectedEmptyString"}

IsWhitespace(c) == c = " "

RECURSIVE TrimStart(_)
TrimStart(s) ==
    IF s # <<>> /\ IsWhitespace(Head(s)) THEN TrimStart(Tail(s)) ELSE s

RECURSIVE TrimEnd(_)
TrimEnd(s) ==
    IF s # <<>> /\ IsWhitespace(s[Len(s)]) THEN TrimEnd(SubSeq(s, 1, Len(s) - 1)) ELSE s

Trim(s) == TrimEnd(TrimStart(s))

\* NotEmptyStr::parse: rejects a string that is empty once trimmed, and
\* otherwise wraps the string it was given.
NotEmptyStrParse(s) ==
    IF Trim(s) = <<>> THEN Err("Input string is empty") ELSE Ok(s)

\* A sub-operation payload is abstracted to what its subsystem's conversion
\* makes of it: "none" for a payload the subsystem accepts, otherwise the
\* ErrorCode the subsystem rejects it with.
Payload == [fault : {"none"} \cup ErrorCode]

DelegateTryInto(payload, kind) ==
    IF payload.fault = "none" THEN Ok([params |-> kind]) ELSE Err(payload.fault)

\* the four delegated conversions
AlterFilterTryInto(payload) == DelegateTryInto(payload, "AlterFilterParams")
DeleteFilterTryInto(payload) == DelegateTryInto(payload, "DeleteFilterParams")
InsertGroupTryInto(payload) == DelegateTryInto(payload, "InsertGroupParams")
DeleteGroupTryInto(payload) == DelegateTryInto(payload, "DeleteGroupParams")

----------------------------------------------------------------------------
\* GridSettingChangesetPB and its conversion

OptionPayload == {None} \cup {Some(p) : p \in Payload}

GridSettingChangesetPB ==
    [grid_id : Strings,
     layout_type : GridLayout,
     insert_filter : OptionPayload,
     delete_filter : OptionPayload,
     insert_group : OptionPayload,
     delete_group : OptionPayload]

\* The order in which try_into reads the optional fields.
SubOps == <<"insert_filter", "delete_filter", "insert_group", "delete_group">>

Range(seq) == {seq[i] : i \in 1..Len(seq)}

\* The delegated conversion of field f applied to payload p.
Delegate(f, p) ==
    CASE f = "insert_filter" -> AlterFilterTryInto(p)
      [] f = "delete_filter" -> DeleteFilterTryInto(p)
      [] f = "insert_group" -> InsertGroupTryInto(p)
      [] f = "delete_group" -> DeleteGroupTryInto(p)

\* One `match self.<field> { None => None, Some(payload) => Some(payload.try_into()?) }`:
\* the converted option, or the delegate's error.
ConvertField(cs, f) ==
    IF ~cs[f].some THEN Ok(None)
    ELSE LET r == Delegate(f, cs[f].val)
         IN  IF r.ok THEN Ok(Some(r.val)) ELSE Err(r.err)

\* The delegates a call touches when field f is reached.
Touch(cs, f, consulted) ==
    IF cs[f].some THEN Append(consulted, f) ELSE consulted

GridSettingChangesetParams(view_id, layout, f1, f2, g1, g2) ==
    [grid_id |-> view_id,
     layout_type |-> layout,
     insert_filter |-> f1,
     delete_filter |-> f2,
     insert_group |-> g1,
     delete_group |-> g2]

\* try_into as it would be with one of its steps written differently: the
\* fields read in `order`, the identifier check present or not, a rejected
\* payload swallowed into an absent field or not, a delegate's error mapped
\* to ViewIdInvalid or not, and the fields of `dropped` left out of the output.
RECURSIVE VariantFields(_, _, _, _, _, _, _)
VariantFields(cs, order, i, vals, touched, swallow, reinterpret) ==
    IF i > Len(order) THEN [result |-> Ok(vals), consulted |-> touched]
    ELSE LET f == order[i]
             r == ConvertField(cs, f)
             t == Touch(cs, f, touched)
         IN  IF r.ok
             THEN VariantFields(cs, order, i + 1, [vals EXCEPT ![f] = r.val], t,
                                swallow, reinterpret)
             ELSE IF swallow
             THEN VariantFields(cs, order, i + 1, vals, t, swallow, reinterpret)
             ELSE [result |-> Err(IF reinterpret THEN "ViewIdInvalid" ELSE r.err),
                   consulted |-> t]

VariantTryInto(cs, order, checkId, swallow, reinterpret, dropped) ==
    LET parsed == NotEmptyStrParse(cs.grid_id) IN
    IF checkId /\ ~parsed.ok THEN [result |-> Err("ViewIdInvalid"), consulted |-> <<>>]
    ELSE
    LET fields == VariantFields(cs, order, 1, [f \in Range(SubOps) |-> None], <<>>,
                                swallow, reinterpret)
        v == fields.result.val
        keep(f) == IF f \in dropped THEN None ELSE v[f]
    IN  IF ~fields.result.ok THEN fields
        ELSE [result |-> Ok(GridSettingChangesetParams(cs.grid_id,
                                LayoutRevisionFrom(cs.layout_type),
                                keep("insert_filter"), keep("delete_filter"),
                                keep("insert_group"), keep("delete_group"))),
              consulted |-> fields.consulted]

\* the group fields converted before the filter fields
TryIntoGroupsFirst(cs) ==
    VariantTryInto(cs, <<"insert_group", "delete_group", "insert_filter", "delete_filter">>,
                   TRUE, FALSE, FALSE, {})

\* the identifier taken as it is
TryIntoIdUnchecked(cs) == VariantTryInto(cs, SubOps, FALSE, FALSE, FALSE, {})

\* delete_group converted but not stored
TryIntoDropsDeleteGroup(cs) ==
    VariantTryInto(cs, SubOps, TRUE, FALSE, FALSE, {"delete_group"})

\* `.ok()` in place of `?`: a rejected payload becomes an absent field
TryIntoSwallowsError(cs) == VariantTryInto(cs, SubOps, TRUE, TRUE, FALSE, {})

\* `.map_err(|_| ErrorCode::ViewIdInvalid)?` on the delegates too
TryIntoReinterprets(cs) == VariantTryInto(cs, SubOps, TRUE, FALSE, TRUE, {})

\* impl TryInto<GridSettingChangesetParams> for GridSettingChangesetPB.
\* result is what the call returns; consulted lists, in call order, the
\* delegates whose conversion the call invoked.
TryInto(cs) ==
    LET parsed == NotEmptyStrParse(cs.grid_id) IN
    IF ~parsed.ok THEN [result |-> Err("ViewIdInvalid"), consulted |-> <<>>]
    ELSE
    LET view_id == parsed.val
        insert_filter == ConvertField(cs, "insert_filter")
        c1 == Touch(cs, "insert_filter", <<>>) IN
    IF ~insert_filter.ok THEN [result |-> Err(insert_filter.err), consulted |-> c1]
    ELSE
    LET delete_filter == ConvertField(cs, "delete_filter")
        c2 == Touch(cs, "delete_filter", c1) IN
    IF ~delete_filter.ok THEN [result |-> Err(delete_filter.err), consulted |-> c2]
    ELSE
    LET insert_group == ConvertField(cs, "insert_group")
        c3 == Touch(cs, "insert_group", c2) IN
    IF ~insert_group.ok THEN [result |-> Err(insert_group.err), consulted |-> c3]
    ELSE
    LET delete_group == ConvertField(cs, "delete_group")
        c4 == Touch(cs, "delete_group", c3) IN
    IF ~delete_group.ok THEN [result |-> Err(delete_group.err), consulted |-> c4]
    ELSE [result |-> Ok(GridSettingChangesetParams(view_id,
                            LayoutRevisionFrom(cs.layout_type),
                            insert_filter.val, delete_filter.val,
                            insert_group.val, delete_group.val)),
          consulted |-> c4]

\* GridSettingChangesetParams::is_filter_changed
IsFilterChangedAnd(params) ==
    params.insert_filter.some /\ params.delete_filter.some

IsFilterChanged(params) ==
    params.insert_filter.some \/ params.delete_filter.some

----------------------------------------------------------------------------
\* State

VARIABLES
    cs,         \* the changeset of this request
    pc,         \* "arrived": not yet converted; "converted": try_into returned
    res,        \* what try_into returned
    consulted,  \* the delegates try_into invoked, in order
    out         \* the last call of a layout operation or of is_filter_changed

vars == <<cs, pc, res, consulted, out>>

NoResult == [pending |-> TRUE]
NoCall == [op |-> "none"]

Init ==
    /\ cs \in GridSettingChangesetPB
    /\ pc = "arrived"
    /\ res = NoResult
    /\ consulted = <<>>
    /\ out = NoCall

\* The request handler converts the changeset (consumed by value, once).
Validate ==
    /\ pc = "arrived"
    /\ LET r == TryInto(cs)
       IN  /\ res' = r.result
           /\ consulted' = r.consulted
    /\ pc' = "converted"
    /\ UNCHANGED <<cs, out>>

\* The caller asks the converted parameters whether a filter changed.
CallIsFilterChanged ==
    /\ pc = "converted"
    /\ res.ok
    /\ out' = [op |-> "is_filter_changed", ret |-> IsFilterChanged(res.val)]
    /\ UNCHANGED <<cs, pc, res, consulted>>

\* GridLayoutPB::all()
CallAll ==
    /\ out' = [op |-> "all", ret |-> All]
    /\ UNCHANGED <<cs, pc, res, consulted>>

\* GridLayout -> LayoutRevision -> GridLayout
CallLayoutRoundTrip ==
    \E v \in GridLayout :
        /\ out' = [op |-> "layout_round_trip", arg |-> v,
                   mid |-> LayoutRevisionFrom(v),
                   ret |-> GridLayoutFrom(LayoutRevisionFrom(v))]
        /\ UNCHANGED <<cs, pc, res, consulted>>

\* LayoutRevision -> GridLayout -> LayoutRevision
CallRevisionRoundTrip ==
    \E x \in LayoutRevision :
        /\ out' = [op |-> "revision_round_trip", arg |-> x,
                   mid |-> GridLayoutFrom(x),
                   ret |-> LayoutRevisionFrom(GridLayoutFrom(x))]
        /\ UNCHANGED <<cs, pc, res, consulted>>

Next ==
    \/ Validate
    \/ CallIsFilterChanged
    \/ CallAll
    \/ CallLayoutRoundTrip
    \/ CallRevisionRoundTrip

Spec == Init /\ [][Next]_vars

----------------------------------------------------------------------------
\* Vocabulary of the properties

Converted == pc = "converted"

\* The identifier passes the check of try_into's first step.
IdAccepted(c) == NotEmptyStrParse(c.grid_id).ok

\* Field f of changeset c is present and its delegate rejects the payload.
Rejected(c, f) == c[f].some /\ ~Delegate(f, c[f].val).ok

RejectedAt(c) == {i \in 1..Len(SubOps) : Rejected(c, SubOps[i])}

Min(S) == CHOOSE i \in S : \A j \in S : i <= j

\* The present fields among the first n of SubOps, in order.
PresentUpTo(c, n) == SelectSeq(SubSeq(SubOps, 1, n), LAMBDA f : c[f].some)

\* The step a failing conversion of c stops at.
Cause(c) ==
    IF ~IdAccepted(c) THEN "grid_id" ELSE SubOps[Min(RejectedAt(c))]

----------------------------------------------------------------------------
\* C1: a changeset whose view identifier is empty is rejected with
\* ErrorCode::ViewIdInvalid, whatever its layout and whatever the presence
\* or validity of its four optional fields.
C1_EmptyIdRejected ==
    (Converted /\ cs.grid_id = <<>>) => res = Err("ViewIdInvalid")

\* an empty identifier converted together with a rejected insert_filter and
\* an accepted delete_group
C1_Witness ==
    /\ Converted
    /\ cs.grid_id = <<>>
    /\ Rejected(cs, "insert_filter")
    /\ cs.insert_filter.val.fault # "ViewIdInvalid"
    /\ cs.delete_group.some /\ ~Rejected(cs, "delete_group")
    /\ cs.layout_type = GridLayoutBoard

\* C2: on success each of the four optional fields is present in the
\* parameters exactly when it was present in the changeset (so all four are
\* absent when all four were absent).
C2_PresencePreserved ==
    (Converted /\ res.ok) =>
        \A f \in Range(SubOps) : res.val[f].some <=> cs[f].some

\* a successful conversion with some fields present and others absent
C2_Witness ==
    /\ Converted /\ res.ok
    /\ cs.insert_filter.some /\ cs.delete_group.some
    /\ ~cs.delete_filter.some /\ ~cs.insert_group.some

\* C3 as stated: with a non-empty identifier and a rejected present payload
\* the call returns an error, no parameters, and the error is the one a
\* rejecting delegate produced.
C3_AsStated ==
    (Converted /\ cs.grid_id # <<>> /\ RejectedAt(cs) # {}) =>
        /\ ~res.ok
        /\ DOMAIN res = {"ok", "err"}
        /\ res.err \in {Delegate(SubOps[i], cs[SubOps[i]].val).err : i \in RejectedAt(cs)}

\* C3 amended: with an identifier that is non-empty once trimmed and a
\* rejected present payload the call returns an error and no parameters, and
\* the error is the error value of the first rejecting delegate, unchanged.
C3_DelegateErrorAborts ==
    (Converted /\ Trim(cs.grid_id) # <<>> /\ RejectedAt(cs) # {}) =>
        /\ ~res.ok
        /\ DOMAIN res = {"ok", "err"}
        /\ LET f == SubOps[Min(RejectedAt(cs))]
           IN  res.err = Delegate(f, cs[f].val).err

\* an accepted identifier, delete_group rejected, the other three accepted
C3_Witness ==
    /\ Converted
    /\ Trim(cs.grid_id) # <<>>
    /\ RejectedAt(cs) = {4}
    /\ cs.insert_filter.some /\ cs.delete_filter.some /\ cs.insert_group.some
    /\ ~res.ok

\* C4: the call stops at the first failing step in the order identifier,
\* insert_filter, delete_filter, insert_group, delete_group: it returns that
\* step's error, and the delegates it invoked are those of the present
\* fields up to that step and none after it (none at all when the
\* identifier fails).
C4_FirstFailureInOrder ==
    Converted =>
        IF ~IdAccepted(cs)
        THEN res = Err("ViewIdInvalid") /\ consulted = <<>>
        ELSE IF RejectedAt(cs) # {}
        THEN LET n == Min(RejectedAt(cs))
             IN  /\ res = Err(Delegate(SubOps[n], cs[SubOps[n]].val).err)
                 /\ consulted = PresentUpTo(cs, n)
        ELSE consulted = PresentUpTo(cs, Len(SubOps))

\* two fields rejected at once with different errors, a present field
\* before the first and one after it
C4_Witness ==
    /\ Converted
    /\ IdAccepted(cs)
    /\ cs.insert_filter.some
    /\ RejectedAt(cs) = {2, 4}
    /\ cs.delete_filter.val.fault # cs.delete_group.val.fault
    /\ cs.insert_group.some
    /\ consulted = <<"insert_filter", "delete_filter">>

C6_LayoutRoundTrip ==
    /\ out.op = "layout_round_trip" =>
           /\ out.mid \in LayoutRevision
           /\ out.mid.variant = out.arg.variant
           /\ out.ret = out.arg
    /\ out.op = "revision_round_trip" =>
           /\ out.mid \in GridLayout
           /\ out.mid.variant = out.arg.variant
           /\ out.ret = out.arg

\* LayoutRevision::Board taken to GridLayout and back
C6_Witness ==
    /\ out.op = "revision_round_trip"
    /\ out.arg = LayoutRevisionBoard
    /\ out.mid = GridLayoutBoard

\* C7: every call of GridLayoutPB::all returns the two layouts Table, Board
\* in that order, whatever was called before it.
C7_AllIsTableBoard ==
    out.op = "all" =>
        /\ Len(out.ret) = 2
        /\ out.ret[1].ty = GridLayoutTable
        /\ out.ret[2].ty = GridLayoutBoard

\* all() called after a conversion
C7_Witness == out.op = "all" /\ Converted

\* C8: is_filter_changed is true exactly when insert_filter or delete_filter
\* is present in the parameters (hence in the changeset they came from),
\* whatever the identifier, the layout and the group fields.
C8_FilterChanged ==
    out.op = "is_filter_changed" =>
        /\ out.ret = (res.val.insert_filter.some \/ res.val.delete_filter.some)
        /\ out.ret = (cs.insert_filter.some \/ cs.delete_filter.some)

\* true with only insert_filter present
C8_Witness ==
    /\ out.op = "is_filter_changed"
    /\ out.ret
    /\ cs.insert_filter.some
    /\ ~cs.delete_filter.some /\ ~cs.insert_group.some /\ ~cs.delete_group.some

\* C10 as stated: the call succeeds exactly when the identifier is non-empty
\* and every present field is accepted; on success the layout is mapped and
\* the identifier passed through.
C10_AsStated ==
    Converted =>
        /\ res.ok <=> (cs.grid_id # <<>> /\ RejectedAt(cs) = {})
        /\ res.ok => /\ res.val.layout_type = LayoutRevisionFrom(cs.layout_type)
                     /\ res.val.grid_id = cs.grid_id

\* C10 amended: the call succeeds exactly when the identifier is non-empty
\* once trimmed and every present field is accepted by its delegate, whatever
\* the layout; on success layout_type is the LayoutRevision of the same
\* variant as the input layout and grid_id is the input identifier as given.
C10_SuccessCondition ==
    Converted =>
        /\ res.ok <=> (Trim(cs.grid_id) # <<>> /\ RejectedAt(cs) = {})
        /\ res.ok => /\ res.val.layout_type \in LayoutRevision
                     /\ res.val.layout_type.variant = cs.layout_type.variant
                     /\ res.val.grid_id = cs.grid_id

\* a Board changeset whose identifier has leading whitespace, converted
C10_Witness ==
    /\ Converted /\ res.ok
    /\ cs.layout_type = GridLayoutBoard
    /\ cs.grid_id = <<" ", "a">>
    /\ cs.insert_filter.some

====
